---- MODULE Spec2Model ----
(***************************************************************************)
(* The discrete-latent variational autoencoder of                          *)
(* BrainSimulator/models/vae.py: the shape plan of the constructor, the     *)
(* pad/unpad pair, the layer stacks as shape transforms, and the encode /   *)
(* decode / forward calls as a sequence of steps.                           *)
(*                                                                         *)
(* A tensor is a record [ok, shape, tracked, data]: shape is the tuple of   *)
(* its dimensions; data holds its elements as nested sequences (outermost   *)
(* dimension first) when tracked is TRUE and is <<>> otherwise (the output  *)
(* of a learned layer has a shape but no values this model knows).  A       *)
(* tensor with ok = FALSE is the fault raised by the tensor engine; op      *)
(* names the operation that raised it.                                      *)
(***************************************************************************)
EXTENDS Integers, Sequences, FiniteSets, TLC

VARIABLES vae, pc, image, x, distributions, sample, decoded_out, unpad_path

vars == <<vae, pc, image, x, distributions, sample, decoded_out, unpad_path>>

----------------------------------------------------------------------------
(* Bounds of the model *)

\* image_height and image_width range over 1..MaxDim in Spec
MaxDim == 130
\* batch sizes range over 1..MaxBatch
MaxBatch == 2
\* where the elements of the image are tracked (SpecTensor), image_height
\* and image_width range over the sizes in 1..MaxDimT that are within
\* MaxSlack of a multiple of total_scaling
MaxDimT == 66
MaxSlack == 4
\* image_height and image_width range over 1..MaxDimM where the input need
\* not match the construction parameters (SpecMismatch)
MaxDimM == 65
\* a mismatched input differs on an axis by up to MaxDelta pixels, or by up
\* to MaxDelta times total_scaling pixels
MaxDelta == 1
\* n_distributions ranges over 1..MaxNDist where the latent is tracked
MaxNDist == 2
\* n_categories ranges over 1..MaxNCat where the latent is tracked
MaxNCat == 3
\* a logit is k * ln 2 for k in 0..MaxLogit
MaxLogit == 3

----------------------------------------------------------------------------
(* Program constants *)

\* __init__'s defaults
n_distributions_default == 16
n_categories_default == 32

\* self.scalings
scalings == <<8, 4, 2>>

\* The example of the specification's section 8
Example == [image_height |-> 100, image_width |-> 130,
            n_distributions |-> 4, n_categories |-> 8, batch |-> 2]

----------------------------------------------------------------------------
(* Arithmetic *)

RECURSIVE np_prod(_)
np_prod(s) == IF s = <<>> THEN 1 ELSE Head(s) * np_prod(Tail(s))

\* np.ceil(a / b) for a >= 0 and b > 0, as an integer
np_ceil_div(a, b) == IF a % b = 0 THEN a \div b ELSE (a \div b) + 1

Max(a, b) == IF a >= b THEN a ELSE b
Min(a, b) == IF a <= b THEN a ELSE b

----------------------------------------------------------------------------
(* The constructor's shape plan *)

total_scaling == np_prod(scalings)

\* Variant: always one more block, also for a multiple of total_scaling
padded_dim_extra(dim) == ((dim \div total_scaling) + 1) * total_scaling
\* self.padded_height, self.padded_width
padded_dim(dim) == np_ceil_div(dim, total_scaling) * total_scaling

\* self.pad_height, self.pad_width
pad_dim(padded, dim) == padded - dim

\* Variant: the low pad takes the larger half
pad_low_ceil(pad) == (pad + 1) \div 2
\* self.pad_top, self.pad_left
pad_low(pad) == pad \div 2

\* Variant: the high pad is the floor half too
pad_high_floor(pad, low) == pad \div 2
\* self.pad_bottom, self.pad_right
pad_high(pad, low) == pad - low

\* Variant: the grid counted one too large
post_cnn_dim_plus(padded) == (padded \div total_scaling) + 1
\* self.post_cnn_height, self.post_cnn_width
post_cnn_dim(padded) == padded \div total_scaling

VariationalAutoEncoder(image_height, image_width, n_distributions, n_categories) ==
    LET padded_height == padded_dim(image_height)
        padded_width == padded_dim(image_width)
        pad_height == pad_dim(padded_height, image_height)
        pad_width == pad_dim(padded_width, image_width)
        pad_top == pad_low(pad_height)
        pad_left == pad_low(pad_width)
        post_cnn_height == post_cnn_dim(padded_height)
        post_cnn_width == post_cnn_dim(padded_width)
    IN  [image_height |-> image_height,
         image_width |-> image_width,
         n_distributions |-> n_distributions,
         n_categories |-> n_categories,
         latent_size |-> n_distributions * n_categories,
         padded_height |-> padded_height,
         padded_width |-> padded_width,
         pad_height |-> pad_height,
         pad_width |-> pad_width,
         pad_top |-> pad_top,
         pad_bottom |-> pad_high(pad_height, pad_top),
         pad_left |-> pad_left,
         pad_right |-> pad_high(pad_width, pad_left),
         latent_channels_size |-> n_distributions,
         post_cnn_height |-> post_cnn_height,
         post_cnn_width |-> post_cnn_width,
         post_cnn_encoder_size |->
             post_cnn_height * post_cnn_width * n_distributions]

----------------------------------------------------------------------------
(* Tensors *)

Untracked(shape) == [ok |-> TRUE, shape |-> shape, tracked |-> FALSE,
                     data |-> <<>>, op |-> ""]

Tracked(shape, data) == [ok |-> TRUE, shape |-> shape, tracked |-> TRUE,
                         data |-> data, op |-> ""]

\* The fault the tensor engine raises in operation op
Fault(op) == [ok |-> FALSE, shape |-> <<>>, tracked |-> FALSE,
              data |-> <<>>, op |-> op]

\* A variable no statement has assigned yet
Unset == [ok |-> TRUE, shape |-> <<>>, tracked |-> FALSE, data |-> <<>>,
          op |-> "unset"]

numel(shape) == np_prod(shape)

----------------------------------------------------------------------------
(* Python slicing and torch.nn.functional.pad on the last two dimensions *)

\* A slice bound i on a dimension of length n: negative counts from the end
py_index(i, n) == IF i < 0 THEN Max(n + i, 0) ELSE Min(i, n)

\* x[:, :, start:stop]
index_rows(t, start, stop) ==
    LET n == t.shape[3]
        lo == py_index(start, n)
        hi == Max(py_index(stop, n), lo)
    IN  [t EXCEPT !.shape = <<t.shape[1], t.shape[2], hi - lo, t.shape[4]>>,
                  !.data = IF t.tracked
                           THEN [b \in 1..t.shape[1] |->
                                  [c \in 1..t.shape[2] |->
                                    SubSeq(t.data[b][c], lo + 1, hi)]]
                           ELSE <<>>]

\* x[:, :, start:]
index_rows_from(t, start) == index_rows(t, start, t.shape[3])

\* x[:, :, :, start:stop]
index_cols(t, start, stop) ==
    LET n == t.shape[4]
        lo == py_index(start, n)
        hi == Max(py_index(stop, n), lo)
    IN  [t EXCEPT !.shape = <<t.shape[1], t.shape[2], t.shape[3], hi - lo>>,
                  !.data = IF t.tracked
                           THEN [b \in 1..t.shape[1] |->
                                  [c \in 1..t.shape[2] |->
                                    [r \in 1..t.shape[3] |->
                                      SubSeq(t.data[b][c][r], lo + 1, hi)]]]
                           ELSE <<>>]

\* x[:, :, :, start:]
index_cols_from(t, start) == index_cols(t, start, t.shape[4])

\* F.pad(x, (left, right, top, bottom), mode='constant', value=0)
F_pad(t, left, right, top, bottom) ==
    LET h == t.shape[3]
        w == t.shape[4]
    IN  IF h + top + bottom < 0 \/ w + left + right < 0
        THEN Fault("F.pad")
        ELSE [t EXCEPT
               !.shape = <<t.shape[1], t.shape[2],
                           h + top + bottom, w + left + right>>,
               !.data = IF t.tracked
                        THEN [b \in 1..t.shape[1] |->
                               [c \in 1..t.shape[2] |->
                                 [r \in 1..(h + top + bottom) |->
                                   [k \in 1..(w + left + right) |->
                                     IF /\ r - top >= 1 /\ r - top <= h
                                        /\ k - left >= 1 /\ k - left <= w
                                     THEN t.data[b][c][r - top][k - left]
                                     ELSE 0]]]]
                        ELSE <<>>]

\* Variant: low and high pads exchanged
pad_input_swapped(m, t) ==
    F_pad(t, m.pad_right, m.pad_left, m.pad_bottom, m.pad_top)
\* VariationalAutoEncoder.pad_input
pad_input(m, t) == F_pad(t, m.pad_left, m.pad_right, m.pad_top, m.pad_bottom)

\* The branch unpad_output takes on an axis with low pad lo and high pad hi
unpad_branch(lo, hi) ==
    IF lo + hi > 0
    THEN IF hi > 0 THEN "lo:-hi" ELSE "lo:"
    ELSE "unsliced"

\* Variant: both axes always sliced lo:-hi, also for a zero pad
unpad_output_unguarded(m, t) ==
    index_cols(index_rows(t, m.pad_top, -m.pad_bottom),
               m.pad_left, -m.pad_right)
\* VariationalAutoEncoder.unpad_output
unpad_output(m, t) ==
    LET rows == unpad_branch(m.pad_top, m.pad_bottom)
        x1 == CASE rows = "lo:-hi" -> index_rows(t, m.pad_top, -m.pad_bottom)
                [] rows = "lo:" -> index_rows_from(t, m.pad_top)
                [] OTHER -> t
        cols == unpad_branch(m.pad_left, m.pad_right)
    IN  CASE cols = "lo:-hi" -> index_cols(x1, m.pad_left, -m.pad_right)
          [] cols = "lo:" -> index_cols_from(x1, m.pad_left)
          [] OTHER -> x1

----------------------------------------------------------------------------
(* The layers, as shape transforms *)

\* CNNLayer(in_channels, out_channels, kernel_size): a convolution block
\* that keeps the spatial size
CNNLayer(t, in_channels, out_channels, kernel_size) ==
    IF ~t.ok THEN t
    ELSE IF Len(t.shape) # 4 \/ t.shape[2] # in_channels
         THEN Fault("CNNLayer")
         ELSE Untracked(<<t.shape[1], out_channels, t.shape[3], t.shape[4]>>)

\* Variant: ceil mode
pool_out_ceil(n, kernel_size, stride) == ((n - kernel_size + stride - 1) \div stride) + 1
\* nn.MaxPool2d's output size on one axis (no padding, no dilation, floor mode)
pool_out(n, kernel_size, stride) == ((n - kernel_size) \div stride) + 1

\* nn.MaxPool2d(kernel_size, stride=stride)
MaxPool2d(t, kernel_size, stride) ==
    IF ~t.ok THEN t
    ELSE LET oh == pool_out(t.shape[3], kernel_size, stride)
             ow == pool_out(t.shape[4], kernel_size, stride)
         IN  IF oh < 1 \/ ow < 1
             THEN Fault("MaxPool2d")
             ELSE Untracked(<<t.shape[1], t.shape[2], oh, ow>>)

\* nn.Flatten()
Flatten(t) ==
    IF ~t.ok THEN t
    ELSE Untracked(<<t.shape[1], numel(Tail(t.shape))>>)

\* MLP(layers, input_size, hidden_size, output_size): a vector transform of
\* the last dimension
MLP(t, layers, input_size, hidden_size, output_size) ==
    IF ~t.ok THEN t
    ELSE IF t.shape[Len(t.shape)] # input_size
         THEN Fault("MLP")
         ELSE Untracked(<<t.shape[1], output_size>>)

\* nn.Unflatten(1, sizes)
Unflatten(t, sizes) ==
    IF ~t.ok THEN t
    ELSE IF Len(t.shape) # 2 \/ t.shape[2] # numel(sizes)
         THEN Fault("Unflatten")
         ELSE Untracked(<<t.shape[1]>> \o sizes)

\* DeCNNLayer(in_channels, out_channels, kernel_size, stride, padding): a
\* transposed convolution block
DeCNNLayer(t, in_channels, out_channels, kernel_size, stride, padding) ==
    IF ~t.ok THEN t
    ELSE IF Len(t.shape) # 4 \/ t.shape[2] # in_channels
         THEN Fault("DeCNNLayer")
         ELSE Untracked(<<t.shape[1], out_channels,
                          (t.shape[3] - 1) * stride - 2 * padding + kernel_size,
                          (t.shape[4] - 1) * stride - 2 * padding + kernel_size>>)

\* nn.Sigmoid()
Sigmoid(t) == t

\* self.encoder
encoder(m, t) ==
    LET l1 == CNNLayer(t, 1, 64, 3)
        l2 == MaxPool2d(l1, scalings[1], scalings[1])
        l3 == CNNLayer(l2, 64, 256, 3)
        l4 == MaxPool2d(l3, scalings[2], scalings[2])
        l5 == CNNLayer(l4, 256, m.latent_channels_size, 3)
        l6 == MaxPool2d(l5, scalings[3], scalings[3])
        l7 == Flatten(l6)
    IN  MLP(l7, 3, m.post_cnn_encoder_size, m.latent_size,
            m.n_distributions * m.n_categories)

\* Variant: the strides taken in the encoder's order, the kernels reversed
decoder_strides_in_encoder_order(m, t) ==
    LET l1 == MLP(t, 3, m.latent_size, m.latent_size, m.post_cnn_encoder_size)
        l2 == Unflatten(l1, <<m.latent_channels_size, m.post_cnn_height,
                              m.post_cnn_width>>)
        l3 == DeCNNLayer(l2, m.latent_channels_size, 256,
                         scalings[3], scalings[1], 0)
        l4 == DeCNNLayer(l3, 256, 64, scalings[2], scalings[2], 0)
        l5 == DeCNNLayer(l4, 64, 1, scalings[1], scalings[3], 0)
    IN  Sigmoid(l5)
\* self.decoder
decoder(m, t) ==
    LET l1 == MLP(t, 3, m.latent_size, m.latent_size, m.post_cnn_encoder_size)
        l2 == Unflatten(l1, <<m.latent_channels_size, m.post_cnn_height,
                              m.post_cnn_width>>)
        l3 == DeCNNLayer(l2, m.latent_channels_size, 256,
                         scalings[3], scalings[3], 0)
        l4 == DeCNNLayer(l3, 256, 64, scalings[2], scalings[2], 0)
        l5 == DeCNNLayer(l4, 64, 1, scalings[1], scalings[1], 0)
    IN  Sigmoid(l5)

----------------------------------------------------------------------------
(* Exact fractions, for softmax and its smoothing *)

RECURSIVE gcd(_, _)
gcd(a, b) == IF b = 0 THEN a ELSE gcd(b, a % b)

Rat(n, d) == LET g == gcd(n, d) IN [num |-> n \div g, den |-> d \div g]

RatAdd(p, q) ==
    LET l == (p.den \div gcd(p.den, q.den)) * q.den
    IN  Rat(p.num * (l \div p.den) + q.num * (l \div q.den), l)

RatMul(p, q) ==
    LET g1 == gcd(p.num, q.den)
        g2 == gcd(q.num, p.den)
    IN  Rat((p.num \div g1) * (q.num \div g2), (p.den \div g2) * (q.den \div g1))

RatDivInt(p, n) == RatMul(p, Rat(1, n))

RatLeq(p, q) == p.num * q.den <= q.num * p.den

RECURSIVE RatSum(_)
RatSum(s) == IF s = <<>> THEN Rat(0, 1) ELSE RatAdd(Head(s), RatSum(Tail(s)))

RECURSIVE IntSum(_)
IntSum(s) == IF s = <<>> THEN 0 ELSE Head(s) + IntSum(Tail(s))

RECURSIVE pow2(_)
pow2(k) == IF k = 0 THEN 1 ELSE 2 * pow2(k - 1)

----------------------------------------------------------------------------
(* The latent: view, softmax, smoothing, sampling.  A tracked logit is an   *)
(* integer k standing for k * ln 2, so that exp(logit) = 2^k exactly; a     *)
(* tracked probability is a fraction.                                       *)

RECURSIVE concat(_)
concat(rows) == IF rows = <<>> THEN <<>> ELSE Head(rows) \o concat(Tail(rows))

\* Variant: the buffer read column by column
view_column_major(t, rows, cols) ==
    IF numel(t.shape) # rows * cols
    THEN Fault("view")
    ELSE [t EXCEPT !.shape = <<rows, cols>>,
                   !.data = IF t.tracked
                            THEN LET flat == concat(t.data)
                                 IN  [i \in 1..rows |-> [j \in 1..cols |->
                                        flat[(j - 1) * rows + i]]]
                            ELSE <<>>]
\* x.view(rows, cols) of a contiguous 2-dimensional tensor
view(t, rows, cols) ==
    IF numel(t.shape) # rows * cols
    THEN Fault("view")
    ELSE [t EXCEPT !.shape = <<rows, cols>>,
                   !.data = IF t.tracked
                            THEN LET flat == concat(t.data)
                                 IN  [i \in 1..rows |-> [j \in 1..cols |->
                                        flat[(i - 1) * cols + j]]]
                            ELSE <<>>]

\* nn.Softmax(dim=1)
softmax_act(t) ==
    [t EXCEPT !.data =
        IF t.tracked
        THEN [i \in 1..t.shape[1] |->
               LET e == [j \in 1..t.shape[2] |-> pow2(t.data[i][j])]
                   total == IntSum(e)
               IN  [j \in 1..t.shape[2] |-> Rat(e[j], total)]]
        ELSE <<>>]

\* Variant: the uniform term not divided by n_categories
smooth_without_division(m, t) ==
    [t EXCEPT !.data =
        IF t.tracked
        THEN [i \in 1..t.shape[1] |-> [j \in 1..t.shape[2] |->
               RatAdd(RatMul(Rat(99, 100), t.data[i][j]),
                      RatMul(Rat(1, 100), Rat(1, 1)))]]
        ELSE <<>>]
\* 0.99 * distributions + 0.01 * torch.ones_like(distributions) / self.n_categories
smooth(m, t) ==
    [t EXCEPT !.data =
        IF t.tracked
        THEN [i \in 1..t.shape[1] |-> [j \in 1..t.shape[2] |->
               RatAdd(RatMul(Rat(99, 100), t.data[i][j]),
                      RatDivInt(RatMul(Rat(1, 100), Rat(1, 1)),
                                m.n_categories))]]
        ELSE <<>>]

\* STMNsampler: per row a one-hot vector whose hot index hot[i] was drawn
\* from the row's probabilities
STMNsampler(t, hot) ==
    [t EXCEPT !.data =
        IF t.tracked
        THEN [i \in 1..t.shape[1] |-> [j \in 1..t.shape[2] |->
               IF j = hot[i] THEN Rat(1, 1) ELSE Rat(0, 1)]]
        ELSE <<>>]

\* The draws the model considers: row i draws category (first + i * step)
Draws(rows, cols) ==
    {[i \in 1..rows |-> ((first + (i - 1) * step) % cols) + 1] :
        first \in 0..(cols - 1), step \in 0..(cols - 1)}

----------------------------------------------------------------------------
(* The calls, step by step *)

\* batch_dim = x.shape[0]
batch_dim == image.shape[1]

\* encode: x = self.pad_input(x)
PadInput ==
    /\ pc = "start"
    /\ x' = pad_input(vae, image)
    /\ pc' = IF x'.ok THEN "padded" ELSE "fault"
    /\ UNCHANGED <<vae, image, distributions, sample, decoded_out, unpad_path>>

\* encode: x = self.encoder(x)
Encoder ==
    /\ pc = "padded"
    /\ x' = encoder(vae, x)
    /\ pc' = IF x'.ok THEN "encoded" ELSE "fault"
    /\ UNCHANGED <<vae, image, distributions, sample, decoded_out, unpad_path>>

\* encode: x = x.view(batch_dim * self.n_distributions, self.n_categories)
ViewRows ==
    /\ pc = "encoded"
    /\ x' = view(x, batch_dim * vae.n_distributions, vae.n_categories)
    /\ pc' = IF x'.ok THEN "viewed" ELSE "fault"
    /\ UNCHANGED <<vae, image, distributions, sample, decoded_out, unpad_path>>

\* encode: distributions = self.softmax_act(x)
Softmax ==
    /\ pc = "viewed"
    /\ distributions' = softmax_act(x)
    /\ pc' = "softmax"
    /\ UNCHANGED <<vae, image, x, sample, decoded_out, unpad_path>>

\* encode: distributions = 0.99 * distributions + 0.01 * ones / n_categories
Smooth ==
    /\ pc = "softmax"
    /\ distributions' = smooth(vae, distributions)
    /\ pc' = "smoothed"
    /\ UNCHANGED <<vae, image, x, sample, decoded_out, unpad_path>>

\* encode: sample = self.sampler(distributions)
Sampler ==
    /\ pc = "smoothed"
    /\ IF distributions.tracked
       THEN \E hot \in Draws(distributions.shape[1], distributions.shape[2]) :
              /\ \A i \in 1..distributions.shape[1] :
                    distributions.data[i][hot[i]].num > 0
              /\ sample' = STMNsampler(distributions, hot)
       ELSE sample' = STMNsampler(distributions, <<>>)
    /\ pc' = "sampled"
    /\ UNCHANGED <<vae, image, x, distributions, decoded_out, unpad_path>>

\* encode: the two views back to (batch, n_distributions * n_categories),
\* and the return
EncodeReturn ==
    /\ pc = "sampled"
    /\ sample' = view(sample, batch_dim, vae.n_distributions * vae.n_categories)
    /\ distributions' =
           view(distributions, batch_dim, vae.n_distributions * vae.n_categories)
    /\ pc' = IF sample'.ok /\ distributions'.ok THEN "latent" ELSE "fault"
    /\ UNCHANGED <<vae, image, x, decoded_out, unpad_path>>

\* decode: x = self.decoder(z), with z the sample forward passes on
Decoder ==
    /\ pc = "latent"
    /\ x' = decoder(vae, sample)
    /\ pc' = IF x'.ok THEN "decoded" ELSE "fault"
    /\ UNCHANGED <<vae, image, distributions, sample, decoded_out, unpad_path>>

\* decode: x = self.unpad_output(x), and forward's return
UnpadOutput ==
    /\ pc = "decoded"
    /\ decoded_out' = unpad_output(vae, x)
    /\ unpad_path' = <<unpad_branch(vae.pad_top, vae.pad_bottom),
                       unpad_branch(vae.pad_left, vae.pad_right)>>
    /\ pc' = "done"
    /\ UNCHANGED <<vae, image, x, distributions, sample>>

\* unpad_output applied to what pad_input returned
UnpadPadded ==
    /\ pc = "padded"
    /\ decoded_out' = unpad_output(vae, x)
    /\ unpad_path' = <<unpad_branch(vae.pad_top, vae.pad_bottom),
                       unpad_branch(vae.pad_left, vae.pad_right)>>
    /\ pc' = "unpadded"
    /\ UNCHANGED <<vae, image, x, distributions, sample>>

----------------------------------------------------------------------------
(* Spec: forward on an input of the construction size, shapes only *)

LatentConfigs == {<<n_distributions_default, n_categories_default>>,
                  <<Example.n_distributions, Example.n_categories>>}

Init ==
    \E h \in 1..MaxDim, w \in 1..MaxDim, cfg \in LatentConfigs, b \in 1..MaxBatch :
        /\ vae = VariationalAutoEncoder(h, w, cfg[1], cfg[2])
        /\ image = Untracked(<<b, 1, h, w>>)
        /\ pc = "start"
        /\ x = Unset
        /\ distributions = Unset
        /\ sample = Unset
        /\ decoded_out = Unset
        /\ unpad_path = <<>>

Next ==
    \/ PadInput
    \/ Encoder
    \/ ViewRows
    \/ Softmax
    \/ Smooth
    \/ Sampler
    \/ EncodeReturn
    \/ Decoder
    \/ UnpadOutput

Spec == Init /\ [][Next]_vars

----------------------------------------------------------------------------
(* SpecMismatch: forward on an input that need not have the construction    *)
(* size, shapes only                                                        *)

Deltas == (-MaxDelta..MaxDelta)
              \cup {k * total_scaling : k \in -MaxDelta..MaxDelta}

InitMismatch ==
    \E h \in 1..MaxDimM, w \in 1..MaxDimM, dh \in Deltas, dw \in Deltas :
        /\ h + dh >= 1
        /\ w + dw >= 1
        /\ vae = VariationalAutoEncoder(h, w, n_distributions_default,
                                        n_categories_default)
        /\ image = Untracked(<<1, 1, h + dh, w + dw>>)
        /\ pc = "start"
        /\ x = Unset
        /\ distributions = Unset
        /\ sample = Unset
        /\ decoded_out = Unset
        /\ unpad_path = <<>>

SpecMismatch == InitMismatch /\ [][Next]_vars

----------------------------------------------------------------------------
(* SpecTensor: unpad_output after pad_input on an image whose elements are  *)
(* tracked                                                                  *)

\* torch.arange(1, b * h * w + 1).view(b, 1, h, w)
arange(b, h, w) ==
    Tracked(<<b, 1, h, w>>,
            [i \in 1..b |-> [c \in 1..1 |-> [r \in 1..h |-> [k \in 1..w |->
                ((i - 1) * h + (r - 1)) * w + k]]]])

DimsT == {d \in 1..MaxDimT : \/ d % total_scaling <= MaxSlack
                             \/ d % total_scaling >= total_scaling - MaxSlack}

InitTensor ==
    \E h \in DimsT, w \in DimsT, b \in 1..MaxBatch :
        /\ vae = VariationalAutoEncoder(h, w, n_distributions_default,
                                        n_categories_default)
        /\ image = arange(b, h, w)
        /\ pc = "start"
        /\ x = Unset
        /\ distributions = Unset
        /\ sample = Unset
        /\ decoded_out = Unset
        /\ unpad_path = <<>>

NextTensor ==
    \/ PadInput
    \/ UnpadPadded

SpecTensor == InitTensor /\ [][NextTensor]_vars

----------------------------------------------------------------------------
(* SpecLatent: encode from the encoder's output on, with the logits tracked *)

\* Logits (a * i + c) mod (MaxLogit + 1) at the i-th element, row-major
Logits(b, n, a, c) ==
    Tracked(<<b, n>>,
            [i \in 1..b |-> [j \in 1..n |->
                (a * ((i - 1) * n + j) + c) % (MaxLogit + 1)]])

InitLatent ==
    \E b \in 1..MaxBatch, nd \in 1..MaxNDist, nc \in 1..MaxNCat,
       a \in 0..MaxLogit, c \in 0..MaxLogit :
        /\ vae = VariationalAutoEncoder(total_scaling, total_scaling, nd, nc)
        /\ image = Untracked(<<b, 1, total_scaling, total_scaling>>)
        /\ pc = "encoded"
        /\ x = Logits(b, nd * nc, a, c)
        /\ distributions = Unset
        /\ sample = Unset
        /\ decoded_out = Unset
        /\ unpad_path = <<>>

NextLatent ==
    \/ ViewRows
    \/ Softmax
    \/ Smooth
    \/ Sampler
    \/ EncodeReturn

SpecLatent == InitLatent /\ [][NextLatent]_vars

----------------------------------------------------------------------------
(* Claims about the shape plan and forward's shapes (Spec) *)

Multiples(upto) == {q * total_scaling : q \in 0..(upto \div total_scaling)}

SmallestMultiple(d, p) ==
    /\ p % 64 = 0
    /\ p - 64 < d
    /\ d <= p
    /\ \A m \in Multiples(p) : m >= d => m >= p

\* C1: with total_scaling = 8*4*2 = 64, the padded height and the padded
\* width are each the smallest multiple of 64 that is >= the image dimension:
\* padded mod 64 = 0 and padded - 64 < d <= padded.
C1_PaddedIsSmallestMultiple ==
    /\ total_scaling = 64
    /\ SmallestMultiple(vae.image_height, vae.padded_height)
    /\ SmallestMultiple(vae.image_width, vae.padded_width)

\* C1's case: a height that is a multiple already and a width one above it
C1_Witness ==
    /\ vae.image_height = 64 /\ vae.padded_height = 64
    /\ vae.image_width = 65 /\ vae.padded_width = 128

SplitsPad(dim, padded, lo, hi) ==
    /\ lo >= 0
    /\ hi >= 0
    /\ 2 * lo <= padded - dim
    /\ padded - dim < 2 * lo + 2
    /\ lo + hi = padded - dim

\* C2: the pad offsets are non-negative and split the total pad exactly:
\* pad_top = floor(pad_height / 2), pad_top + pad_bottom = padded_height -
\* image_height, and likewise pad_left, pad_right for the width.
C2_PadsSplitTotal ==
    /\ SplitsPad(vae.image_height, vae.padded_height, vae.pad_top, vae.pad_bottom)
    /\ SplitsPad(vae.image_width, vae.padded_width, vae.pad_left, vae.pad_right)

\* C2's case: an odd total pad on one axis, an even non-zero one on the other
C2_Witness ==
    /\ vae.padded_height - vae.image_height = 63
    /\ vae.pad_top = 31 /\ vae.pad_bottom = 32
    /\ vae.padded_width - vae.image_width = 62
    /\ vae.pad_left = 31 /\ vae.pad_right = 31

InputShape == <<batch_dim, 1, vae.image_height, vae.image_width>>
PaddedShape == <<batch_dim, 1, vae.padded_height, vae.padded_width>>
LatentShape == <<batch_dim, vae.n_distributions * vae.n_categories>>

\* C3: forward on an input of shape (batch, 1, image_height, image_width)
\* never faults and its reconstruction has exactly the input's shape: the
\* padded shape goes into the encoder and comes out of the decoder, and
\* unpadding gives back the original height and width.
C3_RoundTripShape ==
    /\ image.shape = InputShape
    /\ pc # "fault"
    /\ pc = "padded" => x.shape = PaddedShape
    /\ pc = "encoded" => x.shape = LatentShape
    /\ pc = "latent" => sample.shape = LatentShape
    /\ pc = "decoded" => x.shape = PaddedShape
    /\ pc = "done" => decoded_out.ok /\ decoded_out.shape = image.shape

\* C3's case: forward has returned for a batch of two, with an odd pad on
\* the height and no pad on the width
C3_Witness ==
    /\ pc = "done"
    /\ batch_dim = 2
    /\ vae.pad_top < vae.pad_bottom
    /\ vae.pad_left + vae.pad_right = 0
    /\ decoded_out.shape = <<2, 1, vae.image_height, vae.image_width>>

IsExample ==
    /\ vae.image_height = 100
    /\ vae.image_width = 130
    /\ vae.n_distributions = 4
    /\ vae.n_categories = 8

\* C7: the model built with image_height=100, image_width=130,
\* n_distributions=4, n_categories=8 has padded size 128 x 192, pads 14, 14,
\* 31, 31, post-conv grid 2 x 3, and forward on an input of shape
\* (2,1,100,130) returns a reconstruction of shape (2,1,100,130) and a sample
\* and a distribution of shape (2,32).
C7_Example ==
    IsExample =>
        /\ vae.padded_height = 128 /\ vae.padded_width = 192
        /\ vae.pad_top = 14 /\ vae.pad_bottom = 14
        /\ vae.pad_left = 31 /\ vae.pad_right = 31
        /\ vae.post_cnn_height = 2 /\ vae.post_cnn_width = 3
        /\ pc # "fault"
        /\ (image.shape = <<2, 1, 100, 130>> /\ pc = "done") =>
              /\ decoded_out.shape = <<2, 1, 100, 130>>
              /\ sample.shape = <<2, 32>>
              /\ distributions.shape = <<2, 32>>

\* C7's case: forward has returned on the example
C7_Witness ==
    /\ IsExample
    /\ image.shape = <<2, 1, 100, 130>>
    /\ pc = "done"
    /\ sample.shape = <<2, 32>>

LowHigh(lo, hi) == lo <= hi /\ hi <= lo + 1 /\ (lo + hi > 0 => hi > 0)

\* C10: the low pad never exceeds the high pad and they differ by at most
\* one on both axes, so an axis with a non-zero total pad has a high pad > 0
\* and unpad_output never takes the slices x[lo:] it keeps for a zero high pad.
C10_FallbackSlicesUnreached ==
    /\ LowHigh(vae.pad_top, vae.pad_bottom)
    /\ LowHigh(vae.pad_left, vae.pad_right)
    /\ pc = "done" => unpad_path[1] # "lo:" /\ unpad_path[2] # "lo:"

\* C10's case: unpad_output has run with a total pad of one row
C10_Witness ==
    /\ pc = "done"
    /\ vae.pad_top = 0 /\ vae.pad_bottom = 1
    /\ unpad_path[1] = "lo:-hi"

----------------------------------------------------------------------------
(* Claims about an input of another size (SpecMismatch) *)

Mismatched ==
    \/ image.shape[3] # vae.image_height
    \/ image.shape[4] # vae.image_width

\* The grid the three floor poolings leave of the padded input
GridHeight == (image.shape[3] + vae.pad_top + vae.pad_bottom) \div 64
GridWidth == (image.shape[4] + vae.pad_left + vae.pad_right) \div 64
SameCellCount ==
    GridHeight * GridWidth = vae.post_cnn_height * vae.post_cnn_width

EncodeReturned == pc \in {"latent", "decoded", "done"}

\* C6 as claimed: an input whose height or width differs from the
\* construction parameters never produces a result from encode or forward.
C6_MismatchNeverReturns == Mismatched => ~EncodeReturned

\* C6 as amended: an input whose height or width differs from the
\* construction parameters faults (in a pooling stage when the padded input
\* is below 64 on an axis, else at the encoder's MLP) exactly when the grid
\* left by the floor poolings of the padded input has another number of cells
\* than post_cnn_height * post_cnn_width; otherwise encode returns a sample
\* and a distribution of shape (batch, latent_size) and forward returns a
\* reconstruction of the construction size.
C6_MismatchFaultsIffCellCountDiffers ==
    Mismatched =>
        /\ pc = "fault" =>
              /\ ~SameCellCount
              /\ x.op = (IF GridHeight = 0 \/ GridWidth = 0
                         THEN "MaxPool2d" ELSE "MLP")
        /\ pc \notin {"start", "padded", "fault"} => SameCellCount
        /\ EncodeReturned =>
              /\ sample.shape = LatentShape
              /\ distributions.shape = LatentShape
        /\ pc = "done" =>
              decoded_out.shape =
                  <<batch_dim, 1, vae.image_height, vae.image_width>>

\* C6's case: forward has returned on an input of another size whose grid
\* has the planned number of cells in another arrangement
C6_Witness ==
    /\ Mismatched
    /\ pc = "done"
    /\ GridHeight # vae.post_cnn_height
    /\ decoded_out.shape # image.shape

----------------------------------------------------------------------------
(* Claims about the elements under pad and unpad (SpecTensor) *)

ZeroPadCase ==
    /\ vae.image_height % 64 = 0
    /\ vae.image_width % 64 = 0

\* C5: when image_height and image_width are both multiples of 64, all four
\* pad offsets are 0, pad_input returns its input with shape and elements
\* unchanged, and unpad_output returns its input with shape and elements
\* unchanged, slicing neither axis.
C5_ZeroPadIsIdentity ==
    ZeroPadCase =>
        /\ vae.pad_top = 0 /\ vae.pad_bottom = 0
        /\ vae.pad_left = 0 /\ vae.pad_right = 0
        /\ pc \in {"padded", "unpadded"} => x = image
        /\ pc = "unpadded" =>
              /\ decoded_out = x
              /\ unpad_path = <<"unsliced", "unsliced">>

\* C5's case: pad_input and unpad_output have both run on a batch of two
\* 64 x 64 images
C5_Witness ==
    /\ ZeroPadCase
    /\ pc = "unpadded"
    /\ image.shape = <<2, 1, 64, 64>>
    /\ decoded_out.data[2][1][64][64] = 2 * 64 * 64

\* The element of pad_input's result at row r and column k of item b
PlacedElement(b, r, k) ==
    IF /\ r >= vae.pad_top + 1 /\ r <= vae.padded_height - vae.pad_bottom
       /\ k >= vae.pad_left + 1 /\ k <= vae.padded_width - vae.pad_right
    THEN image.data[b][1][r - vae.pad_top][k - vae.pad_left]
    ELSE 0

\* C9: pad_input places x at rows pad_top .. padded_height - pad_bottom - 1
\* and columns pad_left .. padded_width - pad_right - 1 (counted from 0) of a
\* zero-filled padded_height x padded_width grid, unpad_output selects that
\* range, leaving an axis unsliced when its total pad is zero, and
\* unpad_output(pad_input(x)) = x element for element.
C9_UnpadInvertsPad ==
    /\ pc \in {"padded", "unpadded"} =>
          /\ x.ok
          /\ x.shape = PaddedShape
          /\ \A b \in 1..batch_dim, r \in 1..vae.padded_height,
                k \in 1..vae.padded_width :
                x.data[b][1][r][k] = PlacedElement(b, r, k)
    /\ pc = "unpadded" =>
          /\ decoded_out = image
          /\ (unpad_path[1] = "unsliced") = (vae.pad_top + vae.pad_bottom = 0)
          /\ (unpad_path[2] = "unsliced") = (vae.pad_left + vae.pad_right = 0)

\* C9's case: unpad_output has run on pad_input's result with an odd pad on
\* the height and no pad on the width
C9_Witness ==
    /\ pc = "unpadded"
    /\ vae.pad_top < vae.pad_bottom
    /\ vae.pad_top > 0
    /\ vae.pad_left + vae.pad_right = 0
    /\ unpad_path = <<"lo:-hi", "unsliced">>
    /\ decoded_out.data = image.data

----------------------------------------------------------------------------
(* Claims about the latent (SpecLatent) *)

One == [num |-> 1, den |-> 1]

\* 0.01 / n_categories
Floor == [num |-> 1, den |-> 100 * vae.n_categories]

IsSmoothedRow(row) ==
    /\ Len(row) = vae.n_categories
    /\ RatSum(row) = One
    /\ \A j \in 1..Len(row) : RatLeq(Floor, row[j])

\* Row i of the viewed logits, smoothed: 0.99 * 2^k / total + 0.01 / n, as
\* the cross-multiplied equality p * (100 n total) = 99 n 2^k + total
IsSmoothedSoftmaxOf(row, logits) ==
    LET n == vae.n_categories
        total == IntSum([j \in 1..n |-> pow2(logits[j])])
    IN  \A j \in 1..n :
           row[j].num * (100 * n * total) =
               row[j].den * (99 * n * pow2(logits[j]) + total)

\* The part of item b's latent vector that belongs to distribution d
LatentPart(t, b, d) ==
    SubSeq(t.data[b], (d - 1) * vae.n_categories + 1, d * vae.n_categories)

\* C4: every row of the distribution encode computes and returns (one per
\* batch item and per categorical distribution) sums to 1 and has every
\* entry >= 0.01 / n_categories, being 0.99 * softmax(logits) + 0.01 / n_categories.
C4_DistributionRows ==
    /\ pc \in {"smoothed", "sampled"} =>
          /\ distributions.shape = <<batch_dim * vae.n_distributions,
                                    vae.n_categories>>
          /\ \A i \in 1..distributions.shape[1] :
                /\ IsSmoothedRow(distributions.data[i])
                /\ IsSmoothedSoftmaxOf(distributions.data[i], x.data[i])
    /\ pc = "latent" =>
          \A b \in 1..batch_dim, d \in 1..vae.n_distributions :
              IsSmoothedRow(LatentPart(distributions, b, d))

\* C4's case: encode has returned a distribution over three categories whose
\* first row is not uniform
C4_Witness ==
    /\ pc = "latent"
    /\ vae.n_categories = 3
    /\ distributions.tracked
    /\ distributions.data[1][1] # distributions.data[1][2]
    /\ RatSum(LatentPart(distributions, 1, 1)) = One

RowsOfLatent(rows, latent) ==
    \A b \in 1..batch_dim, d \in 1..vae.n_distributions,
       k \in 1..vae.n_categories :
        latent.data[b][(d - 1) * vae.n_categories + k] =
            rows.data[(b - 1) * vae.n_distributions + d][k]

\* C8: encode views the encoder's batch * latent_size logits as batch *
\* n_distributions rows of n_categories entries without changing the element
\* count, and returns sample and distribution with shape (batch, latent_size),
\* latent_size = n_distributions * n_categories, where entries
\* [d * n_categories, (d+1) * n_categories) of item b are row
\* b * n_distributions + d of the per-distribution arrays.
C8_ViewsKeepRows ==
    [][/\ (pc = "encoded" /\ pc' = "viewed") =>
             /\ x.shape = <<batch_dim, vae.latent_size>>
             /\ x'.shape = <<batch_dim * vae.n_distributions, vae.n_categories>>
             /\ numel(x'.shape) = numel(x.shape)
             /\ RowsOfLatent(x', x)
       /\ (pc = "sampled" /\ pc' # "sampled") =>
             /\ pc' = "latent"
             /\ vae.latent_size = vae.n_distributions * vae.n_categories
             /\ sample'.shape = <<batch_dim, vae.latent_size>>
             /\ distributions'.shape = <<batch_dim, vae.latent_size>>
             /\ numel(sample'.shape) = numel(sample.shape)
             /\ RowsOfLatent(sample, sample')
             /\ RowsOfLatent(distributions, distributions')]_vars

\* C8's case: encode has returned for two items, two distributions and three
\* categories, the rows drawing different categories
C8_Witness ==
    /\ pc = "latent"
    /\ batch_dim = 2
    /\ vae.n_distributions = 2
    /\ vae.n_categories = 3
    /\ sample.shape = <<2, 6>>
    /\ LatentPart(sample, 1, 1) # LatentPart(sample, 1, 2)
    /\ LatentPart(sample, 1, 2) # LatentPart(sample, 2, 1)
    /\ LatentPart(distributions, 1, 1) # LatentPart(distributions, 1, 2)

====
